---- MODULE Spec2Model ----
(***************************************************************************)
(* fltk-egui: the FLTK -> egui input adapter of src/src/lib.rs.            *)
(*                                                                         *)
(* State: the fields of EguiState (with its RawInput `input` and its       *)
(* FusedCursor `fuse_cursor`), the host window `win` the handlers query,   *)
(* and the host clipboard.  Operations: input_to_egui (one action per      *)
(* event arm), EguiState::window_resized, translate_cursor, RawInput::take *)
(* as the render loop calls it, and Clipboard::set.                        *)
(*                                                                         *)
(* f32 values are modelled as exact rationals <<n, d>> in lowest terms     *)
(* (d > 0); exp() of the zoom arm is kept symbolic: a Zoom event carries   *)
(* the exponent handed to exp().                                           *)
(***************************************************************************)
EXTENDS Integers, Sequences, FiniteSets, TLC

VARIABLES
    platform,          \* build target: decides what EventState::Command is
    win,               \* the host GlWindow: [w, h, ppu]
    canvas_size,       \* EguiState.canvas_size
    clipboard,         \* EguiState.clipboard (text held by the clipboard)
    fuse_cursor,       \* EguiState.fuse_cursor: [cursor_icon]
    input,             \* EguiState.input: [events, screen_rect, pixels_per_point]
    modifiers,         \* EguiState.modifiers
    pixels_per_point,  \* EguiState.pixels_per_point
    pointer_pos,       \* EguiState.pointer_pos
    screen_rect,       \* EguiState.screen_rect
    scroll_factor,     \* EguiState.scroll_factor
    zoom_factor,       \* EguiState.zoom_factor
    window_resized_flag, \* EguiState._window_resized
    win_set_cursor,    \* host side: the cursors passed to win.set_cursor, in order
    cursor_calls,      \* history: the translate_cursor calls made so far
    resize_pending,    \* history: a Resize was dispatched since the last window_resized()
    last               \* history: the operation that produced this state, with its inputs

vars == <<platform, win, canvas_size, clipboard, fuse_cursor, input, modifiers,
          pixels_per_point, pointer_pos, screen_rect, scroll_factor, zoom_factor,
          window_resized_flag, win_set_cursor, cursor_calls, resize_pending, last>>

stateFields == <<canvas_size, clipboard, fuse_cursor, input, modifiers,
                 pixels_per_point, pointer_pos, screen_rect, scroll_factor,
                 zoom_factor, window_resized_flag>>

-----------------------------------------------------------------------------
(* Bounds of the model *)

\* input_to_egui is dispatched only while fewer than MaxQueue events are queued
MaxQueue == 2

\* at most MaxCursorCalls translate_cursor calls are made in one behaviour
MaxCursorCalls == 3

-----------------------------------------------------------------------------
(* f32 arithmetic as exact rationals *)

RECURSIVE GCD(_, _)
GCD(a, b) == IF b = 0 THEN a ELSE GCD(b, a % b)

Abs(n) == IF n < 0 THEN -n ELSE n

\* the rational n/d (d # 0) in lowest terms with a positive denominator
Rat(n, d) ==
    LET s == IF d < 0 THEN -1 ELSE 1
        g == GCD(Abs(n), Abs(d))
    IN  <<(s * n) \div g, (s * d) \div g>>

\* an integer converted to f32 (`x as f32`)
F32(n) == Rat(n, 1)

RatDiv(a, b) == Rat(a[1] * b[2], a[2] * b[1])

RatMul(a, b) == Rat(a[1] * b[1], a[2] * b[2])

RatNeg(a) == <<-a[1], a[2]>>

\* egui::pos2 / egui::vec2
pos2(x, y) == [x |-> x, y |-> y]

vec2(x, y) == [x |-> x, y |-> y]

\* Vec2 / f32
Vec2Div(v, f) == vec2(RatDiv(v.x, f), RatDiv(v.y, f))

\* Vec2 * f32
Vec2Mul(v, f) == vec2(RatMul(v.x, f), RatMul(v.y, f))

\* Rect::from_min_size
Rect_from_min_size(min, size) == [min |-> min, size |-> size]

\* Option::None where the Some values are strings
None == "None"

\* Option<T> for the other T: Some(x), and OptNone for None
Some(x) == <<x>>

OptNone == <<>>

\* `n as u32` of an i32 window extent: extents are never negative, and the
\* cast keeps every non-negative i32
AsU32(n) == n

-----------------------------------------------------------------------------
(* The host: windows, keys, key states, buttons, wheel directions *)

Platforms == {"macos", "other"}

\* window geometries (pixel width, pixel height, pixels_per_unit) the host reports
Windows ==
    { [w |-> 800,  h |-> 600, ppu |-> Rat(1, 1)],
      [w |-> 1024, h |-> 768, ppu |-> Rat(5, 4)],
      [w |-> 1024, h |-> 768, ppu |-> Rat(2, 1)] }

\* the geometries a window is constructed with
InitWindows ==
    { [w |-> 800,  h |-> 600, ppu |-> Rat(1, 1)],
      [w |-> 1024, h |-> 768, ppu |-> Rat(5, 4)] }

\* raw pixel coordinates app::event_coords() reports
Coords == { <<100, 50>>, <<250, 125>> }

\* key-state bitmasks app::event_state() reports
Keymods == { {}, {"Ctrl"}, {"Meta"}, {"Shift", "Alt"} }

\* enums::EventState::Command: Meta on macOS, Ctrl elsewhere
EventState_Command == IF platform = "macos" THEN {"Meta"} ELSE {"Ctrl"}

\* host keys app::event_key() reports: the three shortcut letters, a named
\* key, and a key without an engine mapping
HostKeys == {"c", "x", "v", "Enter", "ShiftL"}

\* the keys pressed while typing: HostKeys and a punctuation key, which has
\* no engine mapping and comes with its character as event text
TypingKeys == HostKeys \cup {","}

\* app::event_mouse_button()
MouseButtons == {"Left", "Middle", "Right", "Back"}

\* app::event_dy()
MouseWheels == {"None", "Down", "Up", "Right"}

\* first character of app::event_text(), or None when the text is empty
EventTexts == {None, "c", ","}

\* app::compose(): None, or Some(del)
Composes == {None, "Some(0)"}

\* texts the clipboard is set to
ClipTexts == {"", "hello"}

-----------------------------------------------------------------------------
(* Translation tables *)

NamedKeys ==
    [ Left |-> "ArrowLeft", Up |-> "ArrowUp", Right |-> "ArrowRight",
      Down |-> "ArrowDown", Escape |-> "Escape", Tab |-> "Tab",
      BackSpace |-> "Backspace", Insert |-> "Insert", Home |-> "Home",
      Delete |-> "Delete", End |-> "End", PageDown |-> "PageDown",
      PageUp |-> "PageUp", Enter |-> "Enter" ]

CharKeys ==
    (" " :> "Space") @@
    [ a |-> "A", b |-> "B", c |-> "C", d |-> "D", e |-> "E", f |-> "F",
      g |-> "G", h |-> "H", i |-> "I", j |-> "J", k |-> "K", l |-> "L",
      m |-> "M", n |-> "N", o |-> "O", p |-> "P", q |-> "Q", r |-> "R",
      s |-> "S", t |-> "T", u |-> "U", v |-> "V", w |-> "W", x |-> "X",
      y |-> "Y", z |-> "Z" ] @@
    ("0" :> "Num0") @@ ("1" :> "Num1") @@ ("2" :> "Num2") @@ ("3" :> "Num3") @@
    ("4" :> "Num4") @@ ("5" :> "Num5") @@ ("6" :> "Num6") @@ ("7" :> "Num7") @@
    ("8" :> "Num8") @@ ("9" :> "Num9")

\* Option<egui::Key> for a host key
translate_virtual_key_code(key) ==
    IF key \in DOMAIN NamedKeys THEN NamedKeys[key]
    ELSE IF key \in DOMAIN CharKeys THEN CharKeys[key]
    ELSE None

\* translate_mouse_button with Middle and Right exchanged
translate_mouse_button_Swapped(b) ==
    CASE b = "Left"   -> "Primary"
      [] b = "Middle" -> "Secondary"
      [] b = "Right"  -> "Middle"
      [] OTHER        -> None

\* the match on app::event_mouse_button() of the Push and Released arms
translate_mouse_button(b) ==
    CASE b = "Left"   -> "Primary"
      [] b = "Middle" -> "Middle"
      [] b = "Right"  -> "Secondary"
      [] OTHER        -> None

\* the Modifiers literal of the KeyUp and KeyDown arms
ModifiersOf(keymod) ==
    [ alt     |-> {"Alt"} \subseteq keymod,
      ctrl    |-> {"Ctrl"} \subseteq keymod,
      shift   |-> {"Shift"} \subseteq keymod,
      mac_cmd |-> {"Meta"} \subseteq keymod,
      command |-> EventState_Command \subseteq keymod ]

\* Modifiers::default()
Modifiers_default ==
    [ alt |-> FALSE, ctrl |-> FALSE, shift |-> FALSE, mac_cmd |-> FALSE,
      command |-> FALSE ]

-----------------------------------------------------------------------------
(* Events of egui *)

PointerButton(pos, button, pressed, mods) ==
    [type |-> "PointerButton", pos |-> pos, button |-> button,
     pressed |-> pressed, modifiers |-> mods]

PointerMoved(pos) == [type |-> "PointerMoved", pos |-> pos]

Key(key, pressed, mods) ==
    [type |-> "Key", key |-> key, pressed |-> pressed, modifiers |-> mods]

Text(s) == [type |-> "Text", text |-> s]

Copy == [type |-> "Copy"]

Cut == [type |-> "Cut"]

\* Event::Zoom(e.exp()): the exponent e stands for the factor
Zoom(e) == [type |-> "Zoom", exponent |-> e]

Scroll(v) == [type |-> "Scroll", delta |-> v]

-----------------------------------------------------------------------------
(* Construction *)

ARROW == "Arrow"

\* the scroll_factor and zoom_factor a new EguiState has
DefaultScrollFactor == 12

DefaultZoomFactor == 8

\* FusedCursor::new starting from a cursor other than the arrow
FusedCursor_new_None == [cursor_icon |-> "None"]

FusedCursor_new == [cursor_icon |-> ARROW]

\* EguiState::new(win), field by field
EguiState_new(w) ==
    LET rect == Vec2Div(vec2(F32(w.w), F32(w.h)), w.ppu)
        sr   == Rect_from_min_size(pos2(F32(0), F32(0)), rect)
    IN  [ canvas_size |-> <<AsU32(w.w), AsU32(w.h)>>,
          clipboard |-> "",
          fuse_cursor |-> FusedCursor_new,
          input |-> [events |-> <<>>, screen_rect |-> Some(sr),
                     pixels_per_point |-> Some(w.ppu)],
          modifiers |-> Modifiers_default,
          pixels_per_point |-> w.ppu,
          pointer_pos |-> pos2(F32(0), F32(0)),
          screen_rect |-> sr,
          scroll_factor |-> F32(DefaultScrollFactor),
          zoom_factor |-> F32(DefaultZoomFactor),
          window_resized_flag |-> FALSE ]

Init ==
    /\ platform \in Platforms
    /\ win \in InitWindows
    /\ LET st == EguiState_new(win)
       IN  /\ canvas_size = st.canvas_size
           /\ clipboard = st.clipboard
           /\ fuse_cursor = st.fuse_cursor
           /\ input = st.input
           /\ modifiers = st.modifiers
           /\ pixels_per_point = st.pixels_per_point
           /\ pointer_pos = st.pointer_pos
           /\ screen_rect = st.screen_rect
           /\ scroll_factor = st.scroll_factor
           /\ zoom_factor = st.zoom_factor
           /\ window_resized_flag = st.window_resized_flag
    /\ win_set_cursor = <<>>
    /\ cursor_calls = <<>>
    /\ resize_pending = FALSE
    /\ last = [tag |-> "new"]

\* Push_events inserting at the head of the queue
Push_events_Front(evs) == [input EXCEPT !.events = evs \o @]

\* state.input.events.push(..) for each event of evs, in order
Push_events(evs) == [input EXCEPT !.events = @ \o evs]

CanDispatch == Len(input.events) < MaxQueue

hostUnchanged == UNCHANGED <<platform, win_set_cursor, cursor_calls>>

-----------------------------------------------------------------------------
(* input_to_egui *)

\* ResizeRect without the division by the scale
ResizeRect_Unscaled(w, h, ppu) ==
    Rect_from_min_size(pos2(F32(0), F32(0)), vec2(F32(w), F32(h)))

\* Event::Resize
ResizeRect(w, h, ppu) ==
    Rect_from_min_size(pos2(F32(0), F32(0)), Vec2Div(vec2(F32(w), F32(h)), ppu))

Resize(nw) ==
    /\ CanDispatch
    /\ win' = nw
    /\ input' = [input EXCEPT !.pixels_per_point = Some(nw.ppu),
                              !.screen_rect = Some(ResizeRect(nw.w, nw.h, nw.ppu))]
    /\ canvas_size' = <<AsU32(nw.w), AsU32(nw.h)>>
    /\ window_resized_flag' = TRUE
    /\ resize_pending' = TRUE
    /\ last' = [tag |-> "Resize", qlen |-> Len(input.events)]
    /\ hostUnchanged
    /\ UNCHANGED <<clipboard, fuse_cursor, modifiers, pixels_per_point,
                   pointer_pos, screen_rect, scroll_factor, zoom_factor>>

\* the match on app::event_mouse_button() followed by the push
ButtonEvents(b, pressed, pos, mods) ==
    LET mouse_btn == translate_mouse_button(b)
    IN  IF mouse_btn # None
        THEN <<PointerButton(pos, mouse_btn, pressed, mods)>>
        ELSE <<>>

\* Event::Push
Push(b) ==
    /\ CanDispatch
    /\ input' = Push_events(ButtonEvents(b, TRUE, pointer_pos, modifiers))
    /\ last' = [tag |-> "Push", qlen |-> Len(input.events), button |-> b]
    /\ hostUnchanged
    /\ UNCHANGED <<win, canvas_size, clipboard, fuse_cursor, modifiers,
                   pixels_per_point, pointer_pos, screen_rect, scroll_factor,
                   zoom_factor, window_resized_flag, resize_pending>>

\* Event::Released
Released(b) ==
    /\ CanDispatch
    /\ input' = Push_events(ButtonEvents(b, FALSE, pointer_pos, modifiers))
    /\ last' = [tag |-> "Released", qlen |-> Len(input.events), button |-> b]
    /\ hostUnchanged
    /\ UNCHANGED <<win, canvas_size, clipboard, fuse_cursor, modifiers,
                   pixels_per_point, pointer_pos, screen_rect, scroll_factor,
                   zoom_factor, window_resized_flag, resize_pending>>

\* pos2(x as f32 / pixels_per_point, y as f32 / pixels_per_point)
PointerPosOf(x, y, ppp) == pos2(RatDiv(F32(x), ppp), RatDiv(F32(y), ppp))

\* Event::Move | Event::Drag
MoveDrag(tag, xy) ==
    /\ CanDispatch
    /\ pointer_pos' = PointerPosOf(xy[1], xy[2], pixels_per_point)
    /\ input' = Push_events(<<PointerMoved(pointer_pos')>>)
    /\ last' = [tag |-> tag, qlen |-> Len(input.events), coords |-> xy]
    /\ hostUnchanged
    /\ UNCHANGED <<win, canvas_size, clipboard, fuse_cursor, modifiers,
                   pixels_per_point, screen_rect, scroll_factor, zoom_factor,
                   window_resized_flag, resize_pending>>

Move(xy) == MoveDrag("Move", xy)

Drag(xy) == MoveDrag("Drag", xy)

\* Clipboard::get(): the held text, None when there is none
Clipboard_get(c) == IF c = "" THEN None ELSE c

\* PasteEvents without the test of the command modifier
PasteEvents_AnyModifier(key, mods, clip) ==
    IF key = "V"
    THEN IF Clipboard_get(clip) # None THEN <<Text(Clipboard_get(clip))>> ELSE <<>>
    ELSE <<>>

\* the paste branch of the KeyUp arm
PasteEvents(key, mods, clip) ==
    IF mods.command /\ key = "V"
    THEN IF Clipboard_get(clip) # None THEN <<Text(Clipboard_get(clip))>> ELSE <<>>
    ELSE <<>>

\* the modifier snapshot after a KeyUp or KeyDown of host key hk
KeyModifiers(hk, keymod, old) ==
    IF translate_virtual_key_code(hk) # None THEN ModifiersOf(keymod) ELSE old

\* Event::KeyUp
KeyUp(hk, keymod) ==
    /\ CanDispatch
    /\ modifiers' = KeyModifiers(hk, keymod, modifiers)
    /\ input' = IF translate_virtual_key_code(hk) # None
                THEN Push_events(PasteEvents(translate_virtual_key_code(hk),
                                             modifiers', clipboard))
                ELSE input
    /\ last' = [tag |-> "KeyUp", qlen |-> Len(input.events), key |-> hk,
                keymod |-> keymod]
    /\ hostUnchanged
    /\ UNCHANGED <<win, canvas_size, clipboard, fuse_cursor, pixels_per_point,
                   pointer_pos, screen_rect, scroll_factor, zoom_factor,
                   window_resized_flag, resize_pending>>

\* ComposeEvents without the test of app::compose()
ComposeEvents_IgnoreCompose(c, compose) ==
    IF c # None THEN <<Text(c)>> ELSE <<>>

\* the composed-text part of the KeyDown arm (app::compose_reset() acts on
\* the host's compose state only)
ComposeEvents(c, compose) ==
    IF c # None /\ compose # None THEN <<Text(c)>> ELSE <<>>

\* ShortcutEvents without the two shortcut branches
ShortcutEvents_AlwaysKeyUp(key, mods) == <<Key(key, FALSE, mods)>>

\* the copy / cut / key-up tail of the KeyDown arm
ShortcutEvents(key, mods) ==
    IF mods.command /\ key = "C" THEN <<Copy>>
    ELSE IF mods.command /\ key = "X" THEN <<Cut>>
    ELSE <<Key(key, FALSE, mods)>>

\* what the KeyDown arm pushes for a mapped key
KeyDownEvents(key, mods) == <<Key(key, TRUE, mods)>> \o ShortcutEvents(key, mods)

\* Event::KeyDown
KeyDown(c, compose, hk, keymod) ==
    /\ CanDispatch
    /\ modifiers' = KeyModifiers(hk, keymod, modifiers)
    /\ input' = Push_events(
                    ComposeEvents(c, compose) \o
                    (IF translate_virtual_key_code(hk) # None
                     THEN KeyDownEvents(translate_virtual_key_code(hk), modifiers')
                     ELSE <<>>))
    /\ last' = [tag |-> "KeyDown", qlen |-> Len(input.events), key |-> hk,
                keymod |-> keymod, text |-> c, compose |-> compose]
    /\ hostUnchanged
    /\ UNCHANGED <<win, canvas_size, clipboard, fuse_cursor, pixels_per_point,
                   pointer_pos, screen_rect, scroll_factor, zoom_factor,
                   window_resized_flag, resize_pending>>

\* WheelEvents with the Down branches carrying the sign of the Up branches
WheelEvents_SameSign(ctrl, dy, zoom, scroll) ==
    IF ctrl
    THEN IF dy \in {"Up", "Down"}
         THEN <<Zoom(RatDiv(Vec2Mul(vec2(F32(1), F32(-1)), zoom).y, F32(200)))>>
         ELSE <<>>
    ELSE IF dy \in {"Up", "Down"}
         THEN <<Scroll(vec2(F32(0), RatNeg(scroll)))>>
         ELSE <<>>

\* what the MouseWheel arm pushes
WheelEvents(ctrl, dy, zoom, scroll) ==
    IF ctrl
    THEN CASE dy = "Up" ->
                <<Zoom(RatDiv(Vec2Mul(vec2(F32(1), F32(-1)), zoom).y, F32(200)))>>
           [] dy = "Down" ->
                <<Zoom(RatDiv(Vec2Mul(vec2(F32(-1), F32(1)), zoom).y, F32(200)))>>
           [] OTHER -> <<>>
    ELSE CASE dy = "Up"   -> <<Scroll(vec2(F32(0), RatNeg(scroll)))>>
           [] dy = "Down" -> <<Scroll(vec2(F32(0), scroll))>>
           [] OTHER -> <<>>

\* Event::MouseWheel; ctrl is app::is_event_ctrl()
MouseWheel(ctrl, dy) ==
    /\ CanDispatch
    /\ input' = Push_events(WheelEvents(ctrl, dy, zoom_factor, scroll_factor))
    /\ last' = [tag |-> "MouseWheel", qlen |-> Len(input.events), ctrl |-> ctrl,
                dy |-> dy]
    /\ hostUnchanged
    /\ UNCHANGED <<win, canvas_size, clipboard, fuse_cursor, modifiers,
                   pixels_per_point, pointer_pos, screen_rect, scroll_factor,
                   zoom_factor, window_resized_flag, resize_pending>>

\* event tags the match leaves to its default arm
OtherEvents == {"Focus", "Close"}

\* Other dropping the queued events
Other_DropsQueue(tag) ==
    /\ CanDispatch
    /\ input' = [input EXCEPT !.events = <<>>]
    /\ last' = [tag |-> tag, qlen |-> Len(input.events)]
    /\ hostUnchanged
    /\ UNCHANGED <<win, canvas_size, clipboard, fuse_cursor, modifiers,
                   pixels_per_point, pointer_pos, screen_rect, scroll_factor,
                   zoom_factor, window_resized_flag, resize_pending>>

\* the default arm
Other(tag) ==
    /\ CanDispatch
    /\ last' = [tag |-> tag, qlen |-> Len(input.events)]
    /\ hostUnchanged
    /\ UNCHANGED <<win, stateFields, resize_pending>>

-----------------------------------------------------------------------------
(* The other operations on EguiState *)

\* window_resized that reads the flag and leaves it set
window_resized_NoClear ==
    /\ window_resized_flag' = window_resized_flag
    /\ resize_pending' = FALSE
    /\ last' = [tag |-> "window_resized", ret |-> window_resized_flag,
                pending |-> resize_pending]
    /\ hostUnchanged
    /\ UNCHANGED <<win, canvas_size, clipboard, fuse_cursor, input, modifiers,
                   pixels_per_point, pointer_pos, screen_rect, scroll_factor,
                   zoom_factor>>

\* EguiState::window_resized(); last.ret is the value returned
window_resized ==
    /\ window_resized_flag' = FALSE
    /\ resize_pending' = FALSE
    /\ last' = [tag |-> "window_resized", ret |-> window_resized_flag,
                pending |-> resize_pending]
    /\ hostUnchanged
    /\ UNCHANGED <<win, canvas_size, clipboard, fuse_cursor, input, modifiers,
                   pixels_per_point, pointer_pos, screen_rect, scroll_factor,
                   zoom_factor>>

\* state.input.take() of the render loop: the events and the two Options
\* are moved out
Take ==
    /\ input' = [events |-> <<>>, screen_rect |-> OptNone,
                 pixels_per_point |-> OptNone]
    /\ last' = [tag |-> "take", qlen |-> Len(input.events)]
    /\ hostUnchanged
    /\ UNCHANGED <<win, canvas_size, clipboard, fuse_cursor, modifiers,
                   pixels_per_point, pointer_pos, screen_rect, scroll_factor,
                   zoom_factor, window_resized_flag, resize_pending>>

\* Clipboard::set(text)
Clipboard_set(text) ==
    /\ clipboard' = text
    /\ last' = [tag |-> "clipboard_set", text |-> text]
    /\ hostUnchanged
    /\ UNCHANGED <<win, canvas_size, fuse_cursor, input, modifiers,
                   pixels_per_point, pointer_pos, screen_rect, scroll_factor,
                   zoom_factor, window_resized_flag, resize_pending>>

\* the application assigns the public fields scroll_factor and zoom_factor
set_factors(scroll, zoom) ==
    /\ scroll_factor' = F32(scroll)
    /\ zoom_factor' = F32(zoom)
    /\ last' = [tag |-> "set_factors"]
    /\ hostUnchanged
    /\ UNCHANGED <<win, canvas_size, clipboard, fuse_cursor, input, modifiers,
                   pixels_per_point, pointer_pos, screen_rect,
                   window_resized_flag, resize_pending>>

\* factors an application configures
ScrollFactors == {12, 20}

ZoomFactors == {8, 4}

-----------------------------------------------------------------------------
(* translate_cursor *)

\* egui::CursorIcon: the icons the match names, and two it leaves to `_`
CursorIcons ==
    {"None", "Default", "Help", "PointingHand", "ResizeHorizontal", "ResizeNeSw",
     "ResizeNwSe", "ResizeVertical", "Text", "Crosshair", "NotAllowed", "NoDrop",
     "Wait", "Progress", "Grab", "Grabbing", "Move", "ContextMenu", "ZoomIn"}

\* the match of translate_cursor: the host cursor for an engine icon
TranslateIcon(cursor_icon) ==
    CASE cursor_icon = "None"             -> "None"
      [] cursor_icon = "Default"          -> "Arrow"
      [] cursor_icon = "Help"             -> "Help"
      [] cursor_icon = "PointingHand"     -> "Hand"
      [] cursor_icon = "ResizeHorizontal" -> "WE"
      [] cursor_icon = "ResizeNeSw"       -> "NESW"
      [] cursor_icon = "ResizeNwSe"       -> "NWSE"
      [] cursor_icon = "ResizeVertical"   -> "NS"
      [] cursor_icon = "Text"             -> "Insert"
      [] cursor_icon = "Crosshair"        -> "Cross"
      [] cursor_icon \in {"NotAllowed", "NoDrop"} -> "Wait"
      [] cursor_icon = "Wait"             -> "Wait"
      [] cursor_icon = "Progress"         -> "Wait"
      [] cursor_icon = "Grab"             -> "Hand"
      [] cursor_icon = "Grabbing"         -> "Move"
      [] cursor_icon = "Move"             -> "Move"
      [] OTHER                            -> "Arrow"

\* CursorDiffers without the comparison: every call applies the cursor
CursorDiffers_Always(tmp_icon, current) == TRUE

\* the test guarding the update and the win.set_cursor call
CursorDiffers(tmp_icon, current) == tmp_icon # current

\* translate_cursor(win, fused, cursor_icon)
translate_cursor(cursor_icon) ==
    LET tmp_icon == TranslateIcon(cursor_icon)
        differs  == CursorDiffers(tmp_icon, fuse_cursor.cursor_icon)
    IN  /\ Len(cursor_calls) < MaxCursorCalls
        /\ fuse_cursor' = IF differs THEN [fuse_cursor EXCEPT !.cursor_icon = tmp_icon]
                          ELSE fuse_cursor
        /\ win_set_cursor' = IF differs THEN Append(win_set_cursor, tmp_icon)
                             ELSE win_set_cursor
        /\ cursor_calls' = Append(cursor_calls,
                                  [icon |-> cursor_icon,
                                   before |-> fuse_cursor.cursor_icon,
                                   set |-> Len(win_set_cursor') - Len(win_set_cursor)])
        /\ last' = [tag |-> "translate_cursor", icon |-> cursor_icon]
        /\ UNCHANGED <<platform, win, canvas_size, clipboard, input, modifiers,
                       pixels_per_point, pointer_pos, screen_rect, scroll_factor,
                       zoom_factor, window_resized_flag, resize_pending>>

-----------------------------------------------------------------------------
(* Specifications.  The handlers write disjoint parts of the state; each  *)
(* slice below holds the operations that write what its properties read   *)
(* and is explored exhaustively.  Spec is the whole system: its state     *)
(* space is the product of the slices' and is too large to enumerate.     *)

\* the keyboard arms, the clipboard and the drain
NextKeyboard ==
    \/ \E hk \in HostKeys, km \in Keymods : KeyUp(hk, km)
    \/ \E c \in EventTexts, cm \in Composes, hk \in TypingKeys, km \in Keymods :
          KeyDown(c, cm, hk, km)
    \/ \E text \in ClipTexts : Clipboard_set(text)
    \/ Take

SpecKeyboard == Init /\ [][NextKeyboard]_vars

\* the pointer arms, with the key release that sets the modifier snapshot
NextPointer ==
    \/ \E b \in MouseButtons : Push(b)
    \/ \E b \in MouseButtons : Released(b)
    \/ \E xy \in Coords : Move(xy)
    \/ \E xy \in Coords : Drag(xy)
    \/ \E hk \in HostKeys, km \in Keymods : KeyUp(hk, km)
    \/ Take

SpecPointer == Init /\ [][NextPointer]_vars

\* the resize arm and what reads the geometry and the resize flag
NextWindow ==
    \/ \E nw \in Windows : Resize(nw)
    \/ \E xy \in Coords : Move(xy)
    \/ \E tag \in OtherEvents : Other(tag)
    \/ window_resized
    \/ Take

SpecWindow == Init /\ [][NextWindow]_vars

\* the wheel arm and the two factors it reads
NextWheel ==
    \/ \E ctrl \in BOOLEAN, dy \in MouseWheels : MouseWheel(ctrl, dy)
    \/ \E sf \in ScrollFactors, zf \in ZoomFactors : set_factors(sf, zf)
    \/ Take

SpecWheel == Init /\ [][NextWheel]_vars

\* the cursor translation
NextCursor == \E icon \in CursorIcons : translate_cursor(icon)

SpecCursor == Init /\ [][NextCursor]_vars

\* every arm of input_to_egui at once, each over a few inputs of its own
DispatchKeymods == { {}, {"Ctrl", "Meta"} }

DispatchKeys == {"c", "v", "ShiftL"}

DispatchButtons == {"Left", "Back"}

DispatchWheels == {"Up", "Right"}

DispatchCoords == { <<100, 50>> }

DispatchWindows == { [w |-> 1024, h |-> 768, ppu |-> Rat(2, 1)] }

NextDispatch ==
    \/ \E nw \in DispatchWindows : Resize(nw)
    \/ \E b \in DispatchButtons : Push(b)
    \/ \E b \in DispatchButtons : Released(b)
    \/ \E xy \in DispatchCoords : Move(xy)
    \/ \E xy \in DispatchCoords : Drag(xy)
    \/ \E hk \in DispatchKeys, km \in DispatchKeymods : KeyUp(hk, km)
    \/ \E c \in {None, "c"}, cm \in Composes, hk \in DispatchKeys,
          km \in DispatchKeymods : KeyDown(c, cm, hk, km)
    \/ \E ctrl \in BOOLEAN, dy \in DispatchWheels : MouseWheel(ctrl, dy)
    \/ \E tag \in OtherEvents : Other(tag)
    \/ \E text \in ClipTexts : Clipboard_set(text)
    \/ Take

SpecDispatch == Init /\ [][NextDispatch]_vars

Next ==
    \/ NextKeyboard
    \/ NextPointer
    \/ NextWindow
    \/ NextWheel
    \/ NextCursor

Spec == Init /\ [][Next]_vars

-----------------------------------------------------------------------------
(* Properties *)

\* the events the operation recorded in `last` appended to the queue
Appended == SubSeq(input.events, last.qlen + 1, Len(input.events))

\* the host key state has the command modifier
CommandHeld(keymod) == EventState_Command \subseteq keymod

Origin == pos2(F32(0), F32(0))

\* C1: a KeyDown of a host key mapped to K appends exactly one Key{K, pressed:
\* true}; with command held and K = C the next event is Copy, with command held
\* and K = X it is Cut, and in both cases no Key{K, pressed: false} is appended;
\* otherwise the next event is Key{K, pressed: false} with the same modifiers.
C1_KeyDownShortcuts ==
    (last.tag = "KeyDown" /\ translate_virtual_key_code(last.key) # None) =>
        LET K     == translate_virtual_key_code(last.key)
            evs   == Appended
            downs == {i \in DOMAIN evs :
                        evs[i].type = "Key" /\ evs[i].key = K /\ evs[i].pressed}
            ups   == {i \in DOMAIN evs :
                        evs[i].type = "Key" /\ evs[i].key = K /\ ~evs[i].pressed}
        IN  /\ Cardinality(downs) = 1
            /\ \A i \in downs :
                 /\ i + 1 \in DOMAIN evs
                 /\ IF CommandHeld(last.keymod) /\ K = "C"
                    THEN evs[i + 1] = Copy /\ ups = {}
                    ELSE IF CommandHeld(last.keymod) /\ K = "X"
                    THEN evs[i + 1] = Cut /\ ups = {}
                    ELSE evs[i + 1] = Key(K, FALSE, evs[i].modifiers)

\* C1 witness: command+c pressed while an event is queued, answered by Copy
C1_Witness ==
    /\ last.tag = "KeyDown"
    /\ last.key = "c"
    /\ CommandHeld(last.keymod)
    /\ last.qlen = 1
    /\ Appended = <<Key("C", TRUE, modifiers), Copy>>

\* C2: a KeyUp of the key mapped to V with command held appends exactly
\* Text(T) when the clipboard holds a non-empty T and nothing when it is empty;
\* every other KeyUp appends nothing.
C2_PasteOnKeyUp ==
    last.tag = "KeyUp" =>
        Appended = IF /\ translate_virtual_key_code(last.key) = "V"
                      /\ CommandHeld(last.keymod)
                      /\ clipboard # ""
                   THEN <<Text(clipboard)>>
                   ELSE <<>>

\* C2 witness: command+v released with "hello" in the clipboard
C2_Witness ==
    /\ last.tag = "KeyUp"
    /\ last.key = "v"
    /\ CommandHeld(last.keymod)
    /\ clipboard = "hello"
    /\ Appended = <<Text("hello")>>

\* C3: a MouseWheel with control held appends one Zoom with exponent
\* -zoom_factor/200 for Up and +zoom_factor/200 for Down and no Scroll; without
\* control it appends one Scroll(0, -scroll_factor) for Up and
\* Scroll(0, +scroll_factor) for Down and no Zoom; any other direction appends
\* nothing.
C3_WheelZoomOrScroll ==
    last.tag = "MouseWheel" =>
        LET sign == IF last.dy = "Up" THEN -1 ELSE 1
        IN  Appended =
              IF last.dy \notin {"Up", "Down"} THEN <<>>
              ELSE IF last.ctrl
              THEN <<Zoom(Rat(sign * zoom_factor[1], 200 * zoom_factor[2]))>>
              ELSE <<Scroll(vec2(Rat(0, 1),
                                 Rat(sign * scroll_factor[1], scroll_factor[2])))>>

\* C3 witness: wheel Up with control held and zoom_factor 8 gives exp(-8/200)
C3_Witness ==
    /\ last.tag = "MouseWheel"
    /\ last.ctrl
    /\ last.dy = "Up"
    /\ zoom_factor = <<8, 1>>
    /\ Appended = <<Zoom(<<-1, 25>>)>>

\* C4: cursor_icon is the cursor most recently passed to set_cursor (Arrow when
\* there was no call); a translate_cursor call calls set_cursor exactly when the
\* translated cursor differs from cursor_icon before the call; two consecutive
\* calls with the same engine icon call set_cursor at most once.
C4_CursorAppliedOnChange ==
    /\ fuse_cursor.cursor_icon =
          IF win_set_cursor = <<>> THEN "Arrow"
          ELSE win_set_cursor[Len(win_set_cursor)]
    /\ \A i \in DOMAIN cursor_calls :
          /\ cursor_calls[i].set \in {0, 1}
          /\ (cursor_calls[i].set = 1) <=>
               (TranslateIcon(cursor_calls[i].icon) # cursor_calls[i].before)
    /\ \A i \in DOMAIN cursor_calls :
          (i + 1 \in DOMAIN cursor_calls
             /\ cursor_calls[i].icon = cursor_calls[i + 1].icon)
          => cursor_calls[i].set + cursor_calls[i + 1].set <= 1

\* C4 witness: Text twice in a row, applied by the first call only
C4_Witness ==
    /\ Len(cursor_calls) = 2
    /\ cursor_calls[1].icon = "Text"
    /\ cursor_calls[2].icon = "Text"
    /\ cursor_calls[1].set = 1
    /\ cursor_calls[2].set = 0
    /\ win_set_cursor = <<"Insert">>

\* the engine icons of the translate_cursor calls made since construction
CursorIconsPassed == [i \in DOMAIN cursor_calls |-> cursor_calls[i].icon]

\* C5 as stated: from a new FusedCursor, Default and then Default again result
\* in exactly one host set_cursor call.
C5_DefaultTwiceOneCall ==
    CursorIconsPassed = <<"Default", "Default">> => Len(win_set_cursor) = 1

\* C5 amended: from a new FusedCursor, Default and then Default again result in
\* no host set_cursor call.
C5_DefaultTwiceNoCall ==
    CursorIconsPassed = <<"Default", "Default">> => Len(win_set_cursor) = 0

\* C5 witness: Default was passed twice to a new FusedCursor
C5_Witness ==
    /\ CursorIconsPassed = <<"Default", "Default">>
    /\ win_set_cursor = <<>>
    /\ fuse_cursor.cursor_icon = "Arrow"

\* C6: after a Resize of a window reporting (w, h) and scale p, the input
\* record has pixels_per_point p and the screen rectangle from the origin of
\* size (w/p, h/p), canvas_size is [w, h], and no event was appended.
C6_ResizeGeometry ==
    last.tag = "Resize" =>
        /\ input.pixels_per_point = Some(win.ppu)
        /\ input.screen_rect =
              Some([min  |-> [x |-> <<0, 1>>, y |-> <<0, 1>>],
                    size |-> [x |-> Rat(win.w * win.ppu[2], win.ppu[1]),
                              y |-> Rat(win.h * win.ppu[2], win.ppu[1])]])
        /\ canvas_size = <<win.w, win.h>>
        /\ Len(input.events) = last.qlen

\* C6 witness: 1024 x 768 at scale 1.25 gives 819.2 x 614.4
C6_Witness ==
    /\ last.tag = "Resize"
    /\ win = [w |-> 1024, h |-> 768, ppu |-> <<5, 4>>]
    /\ pixels_per_point # win.ppu
    /\ input.pixels_per_point = Some(<<5, 4>>)
    /\ input.screen_rect[1].size = [x |-> <<4096, 5>>, y |-> <<3072, 5>>]

\* C7: window_resized() returns true exactly when a Resize was dispatched since
\* the previous call (or since construction) and clears the flag; only Resize
\* sets the flag.
C7_WindowResizedReadAndClear ==
    /\ window_resized_flag = resize_pending
    /\ last.tag = "window_resized" =>
          /\ last.ret = last.pending
          /\ window_resized_flag = FALSE

\* C7 witness: window_resized() returned true after a Resize
C7_Witness ==
    /\ last.tag = "window_resized"
    /\ last.ret = TRUE
    /\ window_resized_flag = FALSE

\* the PointerButton a Push or Released of host button b is to append
ExpectedButtonEvents(tag, b) ==
    LET btn == CASE b = "Left"   -> "Primary"
                 [] b = "Right"  -> "Secondary"
                 [] b = "Middle" -> "Middle"
                 [] OTHER        -> None
    IN  IF btn = None THEN <<>>
        ELSE <<[type |-> "PointerButton", pos |-> pointer_pos, button |-> btn,
                pressed |-> (tag = "Push"), modifiers |-> modifiers]>>

\* C8: Push and Released map Left to Primary, Right to Secondary and Middle to
\* Middle and append exactly one PointerButton (pressed for Push, not pressed
\* for Released) with the pointer position and the modifier snapshot; for any
\* other button nothing is appended; the rest of the state is unchanged.
C8_PointerButtons ==
    [][ last'.tag \in {"Push", "Released"} =>
          /\ input' = [input EXCEPT
                         !.events = @ \o ExpectedButtonEvents(last'.tag, last'.button)]
          /\ UNCHANGED <<canvas_size, clipboard, fuse_cursor, modifiers,
                         pixels_per_point, pointer_pos, screen_rect,
                         scroll_factor, zoom_factor, window_resized_flag>> ]_vars

\* C8 witness: the right button pushed after a move and with a modifier held
C8_Witness ==
    /\ last.tag = "Push"
    /\ last.button = "Right"
    /\ pointer_pos # Origin
    /\ modifiers # Modifiers_default
    /\ Appended = <<PointerButton(pointer_pos, "Secondary", TRUE, modifiers)>>

\* C9 as stated: a Move or Drag at (x, y) sets the pointer position to
\* (x/s, y/s), s the scale the window reported at the latest Resize (at
\* construction when there was none), and appends one PointerMoved with it.
C9_PointerUsesCurrentScale ==
    last.tag \in {"Move", "Drag"} =>
        /\ pointer_pos = [x |-> Rat(last.coords[1] * win.ppu[2], win.ppu[1]),
                          y |-> Rat(last.coords[2] * win.ppu[2], win.ppu[1])]
        /\ Appended = <<PointerMoved(pointer_pos)>>

\* C10 as stated: after every KeyDown and KeyUp, of any host key, the modifier
\* snapshot equals the host key state reported with the event.
C10_ModifiersFollowKeyState ==
    last.tag \in {"KeyDown", "KeyUp"} =>
        modifiers = [ alt     |-> "Alt" \in last.keymod,
                      ctrl    |-> "Ctrl" \in last.keymod,
                      shift   |-> "Shift" \in last.keymod,
                      mac_cmd |-> "Meta" \in last.keymod,
                      command |-> CommandHeld(last.keymod) ]

\* C11 as stated: a KeyDown or KeyUp of a host key without an entry in the
\* key translation table leaves the event queue as it was.
C11_UnmappedKeyNoEvent ==
    (last.tag \in {"KeyDown", "KeyUp"}
       /\ translate_virtual_key_code(last.key) = None)
    => Appended = <<>>

\* C11 amended: a KeyUp of an unmapped key appends nothing; a KeyDown of an
\* unmapped key appends no Key, Copy or Cut event: it appends the Text event of
\* the composed text when the host reports one, and nothing otherwise.
C11_UnmappedKeyOnlyText ==
    (last.tag \in {"KeyDown", "KeyUp"}
       /\ translate_virtual_key_code(last.key) = None)
    => Appended = IF /\ last.tag = "KeyDown"
                     /\ last.text # None
                     /\ last.compose # None
                  THEN <<[type |-> "Text", text |-> last.text]>>
                  ELSE <<>>

\* C11 witness: the unmapped key ',' pressed with its character as composed text
C11_Witness ==
    /\ last.tag = "KeyDown"
    /\ last.key = ","
    /\ translate_virtual_key_code(last.key) = None
    /\ last.text = ","
    /\ last.compose # None
    /\ Appended = <<Text(",")>>

\* C12: an event tag other than Resize, Push, Released, Move, Drag, KeyUp,
\* KeyDown and MouseWheel leaves every field of EguiState unchanged.
C12_OtherEventsNoOp ==
    [][ last'.tag \in OtherEvents =>
          UNCHANGED <<canvas_size, clipboard, fuse_cursor, input, modifiers,
                      pixels_per_point, pointer_pos, screen_rect, scroll_factor,
                      zoom_factor, window_resized_flag>> ]_vars

\* C12 witness: an ignored event arrived with events queued, a modifier held,
\* the pointer moved and a resize pending
C12_Witness ==
    /\ last.tag \in OtherEvents
    /\ input.events # <<>>
    /\ modifiers # Modifiers_default
    /\ pointer_pos # Origin
    /\ window_resized_flag

\* the tags of the events input_to_egui is dispatched with
DispatchTags ==
    {"Resize", "Push", "Released", "Move", "Drag", "KeyUp", "KeyDown",
     "MouseWheel"} \cup OtherEvents

\* at most a Text, then a key-down followed by one of Copy, Cut and key-up
KeyDownShape(app) ==
    LET t    == IF app # <<>> /\ app[1].type = "Text" THEN 1 ELSE 0
        rest == SubSeq(app, t + 1, Len(app))
    IN  \/ rest = <<>>
        \/ /\ Len(rest) = 2
           /\ rest[1].type = "Key" /\ rest[1].pressed
           /\ \/ rest[2].type \in {"Copy", "Cut"}
              \/ rest[2].type = "Key" /\ ~rest[2].pressed

\* C13: every input_to_egui call keeps the events already queued, in their
\* order, and appends at most 3 events at the tail: for a KeyDown at most a
\* Text, then a key-down, then one of Copy, Cut and key-up; for every other
\* tag at most one event.
C13_QueueAppendOnly ==
    [][ last'.tag \in DispatchTags =>
          LET old == input.events
              new == input'.events
              app == SubSeq(new, Len(old) + 1, Len(new))
          IN  /\ Len(new) >= Len(old)
              /\ SubSeq(new, 1, Len(old)) = old
              /\ Len(app) <= 3
              /\ IF last'.tag = "KeyDown" THEN KeyDownShape(app)
                 ELSE Len(app) <= 1 ]_vars

\* C13 witness: a KeyDown appended three events behind a queued pointer move
C13_Witness ==
    /\ last.tag = "KeyDown"
    /\ last.qlen = 1
    /\ Len(input.events) = 4
    /\ input.events[1].type = "PointerMoved"
    /\ input.events[2].type = "Text"
    /\ input.events[3].type = "Key" /\ input.events[3].pressed
    /\ input.events[4].type = "Key" /\ ~input.events[4].pressed

====
